---- MODULE Spec2Model ----
(***************************************************************************)
(* Heart disease predictor: the training script (train.py) and the         *)
(* Streamlit application (main.py).                                        *)
(*                                                                         *)
(* train.py and main.py are separate processes that share the working      *)
(* directory: the four artifact files are the only state they share, so    *)
(* their steps interleave at the granularity of one file read or write.    *)
(*                                                                         *)
(* Abstractions.  A dataset is its column list, the set of labels observed *)
(* in each categorical column and whether a stratified split of it is      *)
(* possible.  A fitted scaler is the column list it was fitted on and the   *)
(* data it was fitted on; a fitted classifier is the width it was fitted   *)
(* on; the classifier's decision is opaque (any label, any probability).   *)
(* Numeric field values are fixed to the widgets' defaults.                *)
(***************************************************************************)
EXTENDS Integers, Sequences, FiniteSets, TLC

VARIABLES
    files,            \* working directory: artifact file name -> artifact
    tpc,              \* train.py: position in the script
    trun,             \* train.py: number of the current (or last) run
    csv,              \* train.py: heart.csv as found by the current run
    df,               \* train.py: columns of df
    t_label_encoders, \* train.py: label_encoders
    X,                \* train.py: columns of X
    t_scaler,         \* train.py: scaler
    t_model,          \* train.py: model
    apc,              \* main.py: position in the script run
    nruns,            \* main.py: number of script runs started in the session
    clicked,          \* main.py: whether the Analyze button triggered this script run
    loading,          \* load_model_files: locals model, scaler, model_columns, label_encoders
    loaded,           \* main: model, scaler, model_columns, label_encoders
    missing_named,    \* files named by the "Model file missing" message of this script run
    user_inputs,      \* st.session_state.user_inputs
    prediction_made,  \* st.session_state.prediction_made
    input_df,         \* display_prediction_results: input_df
    scaled_input,     \* display_prediction_results: columns of scaled_input
    prediction,       \* display_prediction_results: prediction, prediction_probability
    perr,             \* exception caught at main.py:297 in this script run
    calls,            \* library calls made by display_prediction_results in this script run
    rendered          \* page elements rendered by this script run

vars == <<files, tpc, trun, csv, df, t_label_encoders, X, t_scaler, t_model,
          apc, nruns, clicked, loading, loaded, missing_named, user_inputs,
          prediction_made, input_df, scaled_input, prediction, perr, calls, rendered>>

trainVars == <<tpc, trun, csv, df, t_label_encoders, X, t_scaler, t_model>>
appVars == <<apc, nruns, clicked, loading, loaded, missing_named, user_inputs,
             prediction_made, input_df, scaled_input, prediction, perr, calls, rendered>>

-----------------------------------------------------------------------------
(* Bounds *)

MaxRuns == 2          \* training runs
MaxScriptRuns == 2    \* script runs of the application session
MaxOmit == 1          \* columns a raw record may omit
MaxSessionRuns == 4   \* script runs the user starts in a session without training

-----------------------------------------------------------------------------
(* Sequences *)

Range(s) == {s[i] : i \in 1..Len(s)}

IndexOf(s, e) == CHOOSE i \in 1..Len(s) : s[i] = e

Without(s, e) == SelectSeq(s, LAMBDA c : c # e)

Swap(s, i, j) == [k \in 1..Len(s) |-> IF k = i THEN s[j] ELSE IF k = j THEN s[i] ELSE s[k]]

Reverse(s) == [k \in 1..Len(s) |-> s[Len(s) + 1 - k]]

-----------------------------------------------------------------------------
(* Schema *)

\* train.py:15
categorical_cols == <<"Sex", "ChestPainType", "RestingECG", "ExerciseAngina", "ST_Slope">>

CatSet == Range(categorical_cols)

Label == "HeartDisease"

\* the keys of st.session_state.user_inputs, in the order main.py:244-258 inserts them
InputKeys == <<"Age", "Sex", "ChestPainType", "RestingBP", "Cholesterol", "FastingBS",
               "RestingECG", "MaxHR", "ExerciseAngina", "Oldpeak", "ST_Slope", "Ca", "Thal">>

\* LabelEncoder.fit keeps the sorted distinct labels (numpy.unique): the
\* labels of each categorical column in sorted order
SortedLabels(col) ==
    CASE col = "Sex"            -> <<"F", "M">>
      [] col = "ChestPainType"  -> <<"ASY", "ATA", "NAP", "TA">>
      [] col = "RestingECG"     -> <<"LVH", "Normal", "ST">>
      [] col = "ExerciseAngina" -> <<"N", "Y">>
      [] col = "ST_Slope"       -> <<"Down", "Flat", "Up">>

AllLabels(col) == Range(SortedLabels(col))

\* le.fit_transform(df[col]), the fitted part: classes_
fit(col, observed) == SelectSeq(SortedLabels(col), LAMBDA l : l \in observed)

\* as transform, but an unseen label gets code 0
transform_default(classes, label) ==
    IF label \in Range(classes)
    THEN [ok |-> TRUE, code |-> IndexOf(classes, label) - 1]
    ELSE [ok |-> TRUE, code |-> 0]

\* le.transform on one label: its position in classes_, or ValueError
transform(classes, label) ==
    IF label \in Range(classes)
    THEN [ok |-> TRUE, code |-> IndexOf(classes, label) - 1]
    ELSE [ok |-> FALSE, code |-> -1]

-----------------------------------------------------------------------------
(* Artifacts *)

model_pkl == "heart_model.pkl"
scaler_pkl == "scaler.pkl"
columns_pkl == "model_columns.pkl"
encoders_pkl == "label_encoders.pkl"

ArtifactFiles == {model_pkl, scaler_pkl, columns_pkl, encoders_pkl}

NoClasses == [c \in CatSet |-> <<>>]

\* One shape for the four pickled objects: the feature-order registry uses
\* cols, the scaler cols and fitted_on, the classifier n, the encoder bank
\* classes.  run is the training run that wrote it.
Artifact(r, cs, k, cl, fo) ==
    [present |-> TRUE, run |-> r, cols |-> cs, n |-> k, classes |-> cl, fitted_on |-> fo]

\* an absent file; also Python's None
None == [present |-> FALSE, run |-> 0, cols |-> <<>>, n |-> 0, classes |-> NoClasses, fitted_on |-> ""]

AllNone == [f \in ArtifactFiles |-> None]

-----------------------------------------------------------------------------
(* Datasets: the heart.csv a training run may find *)

SchemaCols == InputKeys \o <<Label>>

Dataset(e, cs, obs, st) == [exists |-> e, cols |-> cs, observed |-> obs, stratifiable |-> st]

FullObserved == [c \in CatSet |-> AllLabels(c)]

DsFull == Dataset(TRUE, SchemaCols, FullObserved, TRUE)
\* the label column first and two feature columns exchanged
DsReordered == Dataset(TRUE, <<Label>> \o Swap(InputKeys, 1, 2), FullObserved, TRUE)
DsNoOldpeak == Dataset(TRUE, Without(SchemaCols, "Oldpeak"), FullObserved, TRUE)
DsNoSex == Dataset(TRUE, Without(SchemaCols, "Sex"), FullObserved, TRUE)
DsNoLabel == Dataset(TRUE, InputKeys, FullObserved, TRUE)
\* a label class with a single member: train_test_split(stratify=y) raises
DsUnstratifiable == Dataset(TRUE, SchemaCols, FullObserved, FALSE)
DsMenOnly == Dataset(TRUE, SchemaCols, [FullObserved EXCEPT !["Sex"] = {"M"}], TRUE)
DsAbsent == Dataset(FALSE, <<>>, FullObserved, FALSE)

\* the datasets the training runs are started on
Datasets == {DsFull, DsNoOldpeak, DsNoSex, DsNoLabel, DsUnstratifiable, DsAbsent}

\* the datasets a complete bundle may come from
TrainableDatasets == {DsFull, DsReordered, DsNoOldpeak, DsMenOnly}

-----------------------------------------------------------------------------
(* train.py *)

TrainRunning == {"read_csv", "encode", "split_xy", "dump_columns", "train_test_split",
                 "scale", "fit", "dump_model", "dump_scaler", "dump_encoders"}

\* X.columns.tolist() of X = df.drop('HeartDisease', axis=1)
drop(cols, name) == Without(cols, name)

\* train.py:20-21 for every categorical column: label_encoders
fitted_encoders(ds) == [c \in CatSet |-> fit(c, ds.observed[c])]

\* train.py:32, the object dumped to model_columns.pkl by run r
columns_artifact(r, cols) == Artifact(r, cols, 0, NoClasses, "")

\* train.py:42-43, the scaler fitted by run r on X_train
fit_scaler(r, cols) == Artifact(r, cols, Len(cols), NoClasses, "X_train")

\* train.py:47-48, the classifier fitted by run r on the bare array X_train_scaled
fit_model(r, cols) == Artifact(r, <<>>, Len(cols), NoClasses, "X_train_scaled")

\* train.py:60, the object dumped to label_encoders.pkl by run r
encoders_artifact(r, le) == Artifact(r, <<>>, 0, le, "")

\* joblib.dump(obj, name)
dump(fs, name, obj) == [fs EXCEPT ![name] = obj]

\* the process ends and its variables with it
TrainExit ==
    /\ df' = <<>>
    /\ t_label_encoders' = NoClasses
    /\ X' = <<>>
    /\ t_scaler' = None
    /\ t_model' = None

\* an uncaught exception: the traceback is printed and the process exits
TrainFail ==
    /\ tpc' = "failed"
    /\ TrainExit
    /\ UNCHANGED <<files, trun, csv, appVars>>

\* python train.py is started; heart.csv is whatever the user put there
TrainStart(ds) ==
    /\ tpc \in {"idle", "done", "failed"}
    /\ trun < MaxRuns
    /\ trun' = trun + 1
    /\ csv' = ds
    /\ tpc' = "read_csv"
    /\ UNCHANGED <<df, t_label_encoders, X, t_scaler, t_model>>
    /\ UNCHANGED <<files, appVars>>

\* line 8
ReadCsv ==
    /\ tpc = "read_csv"
    /\ IF csv.exists
       THEN /\ df' = csv.cols
            /\ tpc' = "encode"
            /\ UNCHANGED <<files, trun, csv, t_label_encoders, X, t_scaler, t_model, appVars>>
       ELSE TrainFail

\* lines 18-22: df[col] raises KeyError at the first categorical column the dataset lacks
EncodeColumns ==
    /\ tpc = "encode"
    /\ IF CatSet \subseteq Range(df)
       THEN /\ t_label_encoders' = fitted_encoders(csv)
            /\ tpc' = "split_xy"
            /\ UNCHANGED <<files, trun, csv, df, X, t_scaler, t_model, appVars>>
       ELSE TrainFail

\* lines 25-26: df.drop and df['HeartDisease'] raise KeyError without the label column
SplitXY ==
    /\ tpc = "split_xy"
    /\ IF Label \in Range(df)
       THEN /\ X' = drop(df, Label)
            /\ tpc' = "dump_columns"
            /\ UNCHANGED <<files, trun, csv, df, t_label_encoders, t_scaler, t_model, appVars>>
       ELSE TrainFail

\* line 32
DumpColumns ==
    /\ tpc = "dump_columns"
    /\ files' = dump(files, columns_pkl, columns_artifact(trun, X))
    /\ tpc' = "train_test_split"
    /\ UNCHANGED <<trun, csv, df, t_label_encoders, X, t_scaler, t_model, appVars>>

\* lines 35-37
TrainTestSplit ==
    /\ tpc = "train_test_split"
    /\ IF csv.stratifiable
       THEN /\ tpc' = "scale"
            /\ UNCHANGED <<files, trun, csv, df, t_label_encoders, X, t_scaler, t_model, appVars>>
       ELSE TrainFail

\* lines 42-44: scaler.fit_transform(X_train)
ScaleFeatures ==
    /\ tpc = "scale"
    /\ t_scaler' = fit_scaler(trun, X)
    /\ tpc' = "fit"
    /\ UNCHANGED <<files, trun, csv, df, t_label_encoders, X, t_model, appVars>>

\* lines 47-55: model.fit(X_train_scaled, y_train) on a bare array, then the two scores
FitModel ==
    /\ tpc = "fit"
    /\ t_model' = fit_model(trun, X)
    /\ tpc' = "dump_model"
    /\ UNCHANGED <<files, trun, csv, df, t_label_encoders, X, t_scaler, appVars>>

\* line 58
DumpModel ==
    /\ tpc = "dump_model"
    /\ files' = dump(files, model_pkl, t_model)
    /\ tpc' = "dump_scaler"
    /\ UNCHANGED <<trun, csv, df, t_label_encoders, X, t_scaler, t_model, appVars>>

\* line 59
DumpScaler ==
    /\ tpc = "dump_scaler"
    /\ files' = dump(files, scaler_pkl, t_scaler)
    /\ tpc' = "dump_encoders"
    /\ UNCHANGED <<trun, csv, df, t_label_encoders, X, t_scaler, t_model, appVars>>

\* lines 60-67
DumpEncoders ==
    /\ tpc = "dump_encoders"
    /\ files' = dump(files, encoders_pkl, encoders_artifact(trun, t_label_encoders))
    /\ tpc' = "done"
    /\ TrainExit
    /\ UNCHANGED <<trun, csv, appVars>>

\* the run is interrupted (KeyboardInterrupt, kill) between two statements
TrainInterrupt ==
    /\ tpc \in TrainRunning
    /\ TrainFail

-----------------------------------------------------------------------------
(* main.py: values *)

\* a record or a one-row DataFrame: its keys (columns) in order and its values
Frame(cs, v) == [cols |-> cs, val |-> v]

EmptyFrame == Frame(<<>>, [k \in {} |-> 0])

NoPrediction == [made |-> FALSE, label |-> 0, has_proba |-> FALSE, p1 |-> 0]

NoError == [step |-> "", type |-> "", names |-> {}]

NoScaled == [present |-> FALSE, cols |-> <<>>]

\* slider and selectbox defaults of display_input_section (Oldpeak in tenths)
NumericDefault(col) ==
    CASE col = "Age"         -> 50
      [] col = "RestingBP"   -> 120
      [] col = "Cholesterol" -> 200
      [] col = "FastingBS"   -> 0
      [] col = "MaxHR"       -> 150
      [] col = "Oldpeak"     -> 10
      [] col = "Ca"          -> 0
      [] col = "Thal"        -> 1
      [] OTHER               -> 0

\* percent outputs of predict_proba for class 1 that the model distinguishes
ProbLevels == {0, 50, 100}

\* page elements of the prediction result (main.py:289-295)
ResultOutputs == {"main_prediction", "risk_factors", "recommendations"}

PipelineSteps == <<"encode", "select", "scaler.transform", "predict", "predict_proba">>

IsPrefix(s, t) == Len(s) <= Len(t) /\ \A i \in 1..Len(s) : s[i] = t[i]

-----------------------------------------------------------------------------
(* main.py: load_model_files and main *)

\* the files the message of main.py:133 names: str(e) of the FileNotFoundError
\* raised by the one joblib.load that failed
named_by_error(f, fs) == {f}

\* as on_file_not_found, but returning what was loaded before the failure
on_file_not_found_partial(partial) == partial

\* main.py:135
on_file_not_found(partial) == AllNone

\* main.py:144
model_is_none(bundle) == ~bundle[model_pkl].present

\* a script run starts: the page is opened, a widget changes, or the button is clicked
NewRun(byClick) ==
    /\ nruns' = nruns + 1
    /\ clicked' = byClick
    /\ loading' = AllNone
    /\ loaded' = AllNone
    /\ missing_named' = {}
    /\ input_df' = EmptyFrame
    /\ scaled_input' = NoScaled
    /\ prediction' = NoPrediction
    /\ perr' = NoError
    /\ calls' = <<>>
    /\ rendered' = {"header"}
    /\ apc' = "load_model"

\* main.py:137-139
ScriptRun ==
    /\ apc = "idle"
    /\ nruns < MaxScriptRuns
    /\ \E byClick \in BOOLEAN :
          /\ byClick => "button" \in rendered
          /\ NewRun(byClick)
    /\ UNCHANGED <<files, trainVars, user_inputs, prediction_made>>

\* one joblib.load of load_model_files, main.py:126-135
LoadFile(pc, f, nextpc) ==
    /\ apc = pc
    /\ IF files[f].present
       THEN /\ loading' = [loading EXCEPT ![f] = files[f]]
            /\ apc' = nextpc
            /\ loaded' = IF nextpc = "check_model" THEN loading' ELSE loaded
            /\ UNCHANGED <<missing_named, rendered>>
       ELSE /\ missing_named' = named_by_error(f, files)
            /\ rendered' = rendered \cup {"missing_error", "run_train_info"}
            /\ loaded' = on_file_not_found(loading)
            /\ apc' = "check_model"
            /\ UNCHANGED loading
    /\ UNCHANGED <<files, trainVars, nruns, clicked, user_inputs, prediction_made,
                   input_df, scaled_input, prediction, perr, calls>>

LoadModel == LoadFile("load_model", model_pkl, "load_scaler")
LoadScaler == LoadFile("load_scaler", scaler_pkl, "load_columns")
LoadColumns == LoadFile("load_columns", columns_pkl, "load_encoders")
LoadEncoders == LoadFile("load_encoders", encoders_pkl, "check_model")

\* main.py:144-156
MainCheck ==
    /\ apc = "check_model"
    /\ IF model_is_none(loaded)
       THEN apc' = "returned" /\ UNCHANGED rendered
       ELSE apc' = "input_section" /\ rendered' = rendered \cup {"intro"}
    /\ UNCHANGED <<files, trainVars, nruns, clicked, loading, loaded, missing_named,
                   user_inputs, prediction_made, input_df, scaled_input, prediction,
                   perr, calls>>

\* main returns: the script run ends, its variables with it; the page and
\* st.session_state stay
ScriptEnd ==
    /\ apc = "returned"
    /\ apc' = "idle"
    /\ loading' = AllNone
    /\ loaded' = AllNone
    /\ input_df' = EmptyFrame
    /\ scaled_input' = NoScaled
    /\ UNCHANGED <<files, trainVars, nruns, clicked, missing_named, user_inputs,
                   prediction_made, prediction, perr, calls, rendered>>

\* the selectboxes the user moves in this model; the others stay on their first option
MovedBoxes == {"Sex"}

\* the widget values: every selectbox offers classes_ of its encoder and
\* starts on the first option
WidgetValues(encoders, changed, label) ==
    [k \in Range(InputKeys) |->
        IF k \in CatSet
        THEN (IF k = changed THEN label ELSE encoders[k][1])
        ELSE NumericDefault(k)]

\* display_input_section, main.py:168-263
InputSection ==
    /\ apc = "input_section"
    /\ \E changed \in MovedBoxes :
         \E label \in Range(loaded[encoders_pkl].classes[changed]) :
             user_inputs' = Frame(InputKeys,
                                  WidgetValues(loaded[encoders_pkl].classes, changed, label))
    /\ IF clicked
       THEN /\ prediction_made' = TRUE
            /\ NewRun(FALSE)
       ELSE /\ rendered' = rendered \cup {"inputs", "button"}
            /\ apc' = "check_prediction"
            /\ UNCHANGED <<prediction_made, nruns, clicked, loading, loaded, missing_named,
                           input_df, scaled_input, prediction, perr, calls>>
    /\ UNCHANGED <<files, trainVars>>

\* as CheckPrediction, but the flag is consumed by the check
CheckPredictionOnce ==
    /\ apc = "check_prediction"
    /\ apc' = IF prediction_made THEN "results" ELSE "footer"
    /\ prediction_made' = FALSE
    /\ UNCHANGED <<files, trainVars, nruns, clicked, loading, loaded, missing_named,
                   user_inputs, input_df, scaled_input, prediction, perr, calls, rendered>>

\* main.py:162
CheckPrediction ==
    /\ apc = "check_prediction"
    /\ apc' = IF prediction_made THEN "results" ELSE "footer"
    /\ UNCHANGED <<files, trainVars, nruns, clicked, loading, loaded, missing_named,
                   user_inputs, prediction_made, input_df, scaled_input, prediction,
                   perr, calls, rendered>>

\* display_footer, main.py:166
Footer ==
    /\ apc = "footer"
    /\ rendered' = rendered \cup {"footer"}
    /\ apc' = "returned"
    /\ UNCHANGED <<files, trainVars, nruns, clicked, loading, loaded, missing_named,
                   user_inputs, prediction_made, input_df, scaled_input, prediction,
                   perr, calls>>

-----------------------------------------------------------------------------
(* main.py: display_prediction_results *)

PredictionPcs == {"results", "encode", "select", "scale", "predict", "predict_proba",
                  "display_main", "display_risk", "display_recommendations"}

\* the statement that follows each statement of the try block, main.py:273-295
next_statement(pc) ==
    CASE pc = "results"       -> "encode"
      [] pc = "encode"        -> "select"
      [] pc = "select"        -> "scale"
      [] pc = "scale"         -> "predict"
      [] pc = "predict"       -> "predict_proba"
      [] pc = "predict_proba" -> "display_main"
      [] pc = "display_main"  -> "display_risk"
      [] pc = "display_risk"  -> "display_recommendations"
      [] pc = "display_recommendations" -> "footer"

\* as after_exception, but resuming at the statement after the failed one
after_exception_resume(pc) == next_statement(pc)

\* main.py:297-299: the handler reports and returns to main, which goes on to the footer
after_exception(pc) == "footer"

\* main.py:277
encode_applies(col, frame) == col \in Range(frame.cols)

\* main.py:276-278: the loop over label_encoders.items(); the first column
\* whose value is not in classes_ raises ValueError
encode(frame, encoders) ==
    LET present == SelectSeq(categorical_cols, LAMBDA c : encode_applies(c, frame))
        unseen == SelectSeq(present, LAMBDA c : ~transform(encoders[c], frame.val[c]).ok)
    IN  IF unseen # <<>>
        THEN [ok |-> FALSE, names |-> {unseen[1]}, frame |-> frame]
        ELSE [ok |-> TRUE, names |-> {},
              frame |-> Frame(frame.cols,
                              [k \in DOMAIN frame.val |->
                                  IF k \in Range(present)
                                  THEN transform(encoders[k], frame.val[k]).code
                                  ELSE frame.val[k]])]

\* as select, but like input_df.reindex(columns=model_columns, fill_value=0)
select_reindex(frame, model_columns) ==
    [ok |-> TRUE, names |-> {},
     frame |-> Frame(model_columns,
                     [k \in Range(model_columns) |->
                         IF k \in Range(frame.cols) THEN frame.val[k] ELSE 0])]

\* as select, but keeping the frame's own column order
select_frame_order(frame, model_columns) ==
    LET absent == {c \in Range(model_columns) : c \notin Range(frame.cols)}
        kept == SelectSeq(frame.cols, LAMBDA c : c \in Range(model_columns))
    IN  IF absent # {}
        THEN [ok |-> FALSE, names |-> absent, frame |-> frame]
        ELSE [ok |-> TRUE, names |-> {},
              frame |-> Frame(kept, [k \in Range(kept) |-> frame.val[k]])]

\* main.py:281: input_df[model_columns]; KeyError names the columns not in the frame
select(frame, model_columns) ==
    LET absent == {c \in Range(model_columns) : c \notin Range(frame.cols)}
    IN  IF absent # {}
        THEN [ok |-> FALSE, names |-> absent, frame |-> frame]
        ELSE [ok |-> TRUE, names |-> {},
              frame |-> Frame(model_columns, [k \in Range(model_columns) |-> frame.val[k]])]

\* as scaler_after_transform, but for scaler.fit_transform(input_df)
scaler_after_fit_transform(scaler, frame) ==
    [scaler EXCEPT !.cols = frame.cols, !.n = Len(frame.cols), !.fitted_on = "input_df"]

\* main.py:284: the scaler after scaler.transform(input_df): transform reads
\* mean_ and scale_ and leaves the fitted scaler as it is
scaler_after_transform(scaler, frame) == scaler

\* scaler.transform rejects an input of another width than it was fitted on
scaler_accepts_width(scaler, frame) == Len(frame.cols) = scaler.n

\* classifier.predict and predict_proba reject an input of another width
model_accepts_width(model, scaled) == Len(scaled.cols) = model.n

\* the keys display_risk_factors reads with the default numeric values, main.py:344-370
RiskFactorKeys == {"Age", "Sex", "RestingBP", "Cholesterol", "FastingBS",
                   "ExerciseAngina", "Oldpeak", "Ca", "ChestPainType"}

appFrame == <<files, trainVars, nruns, clicked, loading, missing_named, user_inputs,
              prediction_made>>

\* an exception inside the try block, caught at main.py:297
Raise(step, type, names) ==
    /\ perr' = [step |-> step, type |-> type, names |-> names]
    /\ rendered' = rendered \cup {"prediction_error", "check_inputs_info"}
    /\ apc' = after_exception(apc)

\* main.py:268-273
ResultsBegin ==
    /\ apc = "results"
    /\ rendered' = rendered \cup {"results_header"}
    /\ input_df' = Frame(user_inputs.cols, user_inputs.val)
    /\ apc' = next_statement(apc)
    /\ UNCHANGED <<appFrame, loaded, scaled_input, prediction, perr, calls>>

\* main.py:276-278
PredEncode ==
    /\ apc = "encode"
    /\ calls' = Append(calls, "encode")
    /\ LET r == encode(input_df, loaded[encoders_pkl].classes)
       IN  IF r.ok
           THEN /\ input_df' = r.frame
                /\ apc' = next_statement(apc)
                /\ UNCHANGED <<perr, rendered>>
           ELSE /\ Raise("encode", "ValueError", r.names)
                /\ UNCHANGED input_df
    /\ UNCHANGED <<appFrame, loaded, scaled_input, prediction>>

\* main.py:281
PredSelect ==
    /\ apc = "select"
    /\ calls' = Append(calls, "select")
    /\ LET r == select(input_df, loaded[columns_pkl].cols)
       IN  IF r.ok
           THEN /\ input_df' = r.frame
                /\ apc' = next_statement(apc)
                /\ UNCHANGED <<perr, rendered>>
           ELSE /\ Raise("select", "KeyError", r.names)
                /\ UNCHANGED input_df
    /\ UNCHANGED <<appFrame, loaded, scaled_input, prediction>>

\* main.py:284.  A frame of the fitted width whose column names differ from
\* feature_names_in_ is rejected by some scikit-learn versions and accepted
\* (with a warning) by others.
PredScale ==
    /\ apc = "scale"
    /\ calls' = Append(calls, "scaler.transform")
    /\ loaded' = [loaded EXCEPT ![scaler_pkl] = scaler_after_transform(loaded[scaler_pkl], input_df)]
    /\ \E accepted \in BOOLEAN :
          /\ accepted => scaler_accepts_width(loaded[scaler_pkl], input_df)
          /\ ~accepted => \/ ~scaler_accepts_width(loaded[scaler_pkl], input_df)
                          \/ input_df.cols # loaded[scaler_pkl].cols
          /\ IF accepted
             THEN /\ scaled_input' = [present |-> TRUE, cols |-> input_df.cols]
                  /\ apc' = next_statement(apc)
                  /\ UNCHANGED <<perr, rendered>>
             ELSE /\ Raise("scaler.transform", "ValueError", {})
                  /\ UNCHANGED scaled_input
    /\ UNCHANGED <<appFrame, input_df, prediction>>

\* main.py:285: the label is the classifier's, opaque here
PredPredict ==
    /\ apc = "predict"
    /\ calls' = Append(calls, "predict")
    /\ IF model_accepts_width(loaded[model_pkl], scaled_input)
       THEN /\ \E label \in {0, 1} : prediction' = [prediction EXCEPT !.made = TRUE, !.label = label]
            /\ apc' = next_statement(apc)
            /\ UNCHANGED <<perr, rendered>>
       ELSE /\ Raise("predict", "ValueError", {})
            /\ UNCHANGED prediction
    /\ UNCHANGED <<appFrame, loaded, input_df, scaled_input>>

\* main.py:286: predict is the argmax of predict_proba, class 0 on a tie
PredProba ==
    /\ apc = "predict_proba"
    /\ calls' = Append(calls, "predict_proba")
    /\ IF model_accepts_width(loaded[model_pkl], scaled_input)
       THEN /\ \E p \in ProbLevels :
                 /\ (p > 50) <=> (prediction.label = 1)
                 /\ prediction' = [prediction EXCEPT !.has_proba = TRUE, !.p1 = p]
            /\ apc' = next_statement(apc)
            /\ UNCHANGED <<perr, rendered>>
       ELSE /\ Raise("predict_proba", "ValueError", {})
            /\ UNCHANGED prediction
    /\ UNCHANGED <<appFrame, loaded, input_df, scaled_input>>

\* main.py:289, display_main_prediction
DisplayMain ==
    /\ apc = "display_main"
    /\ rendered' = rendered \cup {"main_prediction"}
    /\ apc' = next_statement(apc)
    /\ UNCHANGED <<appFrame, loaded, input_df, scaled_input, prediction, perr, calls>>

\* main.py:292, display_risk_factors: inputs[key] raises KeyError on a key
\* st.session_state.user_inputs lacks
DisplayRiskFactors ==
    /\ apc = "display_risk"
    /\ LET absent == RiskFactorKeys \ Range(user_inputs.cols)
       IN  IF absent = {}
           THEN /\ rendered' = rendered \cup {"risk_factors"}
                /\ apc' = next_statement(apc)
                /\ UNCHANGED perr
           ELSE Raise("display_risk_factors", "KeyError", absent)
    /\ UNCHANGED <<appFrame, loaded, input_df, scaled_input, prediction, calls>>

\* main.py:295, display_health_recommendations
DisplayRecommendations ==
    /\ apc = "display_recommendations"
    /\ rendered' = rendered \cup {"recommendations"}
    /\ apc' = next_statement(apc)
    /\ UNCHANGED <<appFrame, loaded, input_df, scaled_input, prediction, perr, calls>>

-----------------------------------------------------------------------------
(* The training script and the application session side by side *)

\* the four artifacts a complete run r on dataset ds leaves
trained(ds, r) ==
    [f \in ArtifactFiles |->
        CASE f = columns_pkl  -> columns_artifact(r, drop(ds.cols, Label))
          [] f = model_pkl    -> fit_model(r, drop(ds.cols, Label))
          [] f = scaler_pkl   -> fit_scaler(r, drop(ds.cols, Label))
          [] f = encoders_pkl -> encoders_artifact(r, fitted_encoders(ds))]

TrainIdle ==
    /\ tpc = "idle"
    /\ trun = 0
    /\ csv = DsAbsent
    /\ df = <<>>
    /\ t_label_encoders = NoClasses
    /\ X = <<>>
    /\ t_scaler = None
    /\ t_model = None

AppIdle ==
    /\ apc = "idle"
    /\ nruns = 0
    /\ clicked = FALSE
    /\ loading = AllNone
    /\ loaded = AllNone
    /\ missing_named = {}
    /\ user_inputs = EmptyFrame
    /\ prediction_made = FALSE
    /\ input_df = EmptyFrame
    /\ scaled_input = NoScaled
    /\ prediction = NoPrediction
    /\ perr = NoError
    /\ calls = <<>>
    /\ rendered = {}

\* the working directory holds any subset of the artifacts of an earlier
\* complete run (run 0, on the full dataset)
Init ==
    /\ \E kept \in SUBSET ArtifactFiles :
          files = [f \in ArtifactFiles |-> IF f \in kept THEN trained(DsFull, 0)[f] ELSE None]
    /\ TrainIdle
    /\ AppIdle

Next ==
    \/ \E ds \in Datasets : TrainStart(ds)
    \/ ReadCsv
    \/ EncodeColumns
    \/ SplitXY
    \/ DumpColumns
    \/ TrainTestSplit
    \/ ScaleFeatures
    \/ FitModel
    \/ DumpModel
    \/ DumpScaler
    \/ DumpEncoders
    \/ TrainInterrupt
    \/ ScriptRun
    \/ LoadModel
    \/ LoadScaler
    \/ LoadColumns
    \/ LoadEncoders
    \/ MainCheck
    \/ InputSection
    \/ CheckPrediction
    \/ ResultsBegin
    \/ PredEncode
    \/ PredSelect
    \/ PredScale
    \/ PredPredict
    \/ PredProba
    \/ DisplayMain
    \/ DisplayRiskFactors
    \/ DisplayRecommendations
    \/ Footer
    \/ ScriptEnd

Spec == Init /\ [][Next]_vars

-----------------------------------------------------------------------------
(* display_prediction_results on any raw record and any loaded bundle *)

\* columns a raw record may omit: a categorical one, numeric ones, and one
\* that some registries lack
OmitCandidates == {"Sex", "Oldpeak", "Age", "ST_Slope"}

ExtraKey == "BMI"

\* the record of the end-to-end scenario
ScenarioValue(col) ==
    CASE col = "Sex"            -> "M"
      [] col = "ChestPainType"  -> "ATA"
      [] col = "RestingECG"     -> "Normal"
      [] col = "ExerciseAngina" -> "N"
      [] col = "ST_Slope"       -> "Flat"
      [] col = ExtraKey         -> 25
      [] OTHER                  -> NumericDefault(col)

RawRecord(order, extra, omitted, sex, unseen) ==
    LET kept == SelectSeq(order, LAMBDA c : c \notin omitted)
        cols == IF extra THEN <<ExtraKey>> \o kept ELSE kept
    IN  Frame(cols, [k \in Range(cols) |->
                        IF k = unseen THEN "X"
                        ELSE IF k = "Sex" THEN sex
                        ELSE ScenarioValue(k)])

RawRecords ==
    {RawRecord(order, extra, omitted, sex, unseen) :
        order \in {InputKeys, Reverse(InputKeys)},
        extra \in BOOLEAN,
        omitted \in {o \in SUBSET OmitCandidates : Cardinality(o) <= MaxOmit},
        sex \in {"M", "F", "X"},
        unseen \in (CatSet \ {"Sex"}) \cup {"none"}}

\* The last training run (run 2, on csv) completed; the bundle in memory has
\* its registry, and each other object from that run or from the run before.
PipeInit ==
    /\ \E ds1 \in TrainableDatasets, ds2 \in TrainableDatasets :
         \E older \in SUBSET (ArtifactFiles \ {columns_pkl}) :
            /\ csv = ds2
            /\ files = trained(ds2, 2)
            /\ loaded = [f \in ArtifactFiles |->
                            IF f \in older THEN trained(ds1, 1)[f] ELSE trained(ds2, 2)[f]]
    /\ loading = loaded
    /\ tpc = "done"
    /\ trun = 2
    /\ df = <<>>
    /\ t_label_encoders = NoClasses
    /\ X = <<>>
    /\ t_scaler = None
    /\ t_model = None
    /\ apc = "results"
    /\ nruns = 1
    /\ clicked = FALSE
    /\ missing_named = {}
    /\ user_inputs \in RawRecords
    /\ prediction_made = TRUE
    /\ input_df = EmptyFrame
    /\ scaled_input = NoScaled
    /\ prediction = NoPrediction
    /\ perr = NoError
    /\ calls = <<>>
    /\ rendered = {"header", "intro", "inputs", "button"}

PipeNext ==
    \/ ResultsBegin
    \/ PredEncode
    \/ PredSelect
    \/ PredScale
    \/ PredPredict
    \/ PredProba
    \/ DisplayMain
    \/ DisplayRiskFactors
    \/ DisplayRecommendations
    \/ Footer
    \/ ScriptEnd

PipeSpec == PipeInit /\ [][PipeNext]_vars

-----------------------------------------------------------------------------
(* Properties *)

\* the artifacts in the working directory that training run r wrote
WrittenBy(r) == {f \in ArtifactFiles : files[f].present /\ files[f].run = r}

BundleLoaded == \A f \in ArtifactFiles : loaded[f].present

BundleNone == \A f \in ArtifactFiles : ~loaded[f].present

\* C1: in every state of a training run, the run has written none of its four
\* artifacts or all four.
C1_SavedAsOneSet ==
    trun > 0 => WrittenBy(trun) \in {{}, ArtifactFiles}

\* C2: every bundle load_model_files returns consists of four objects written
\* by the same training run.
C2_BundleFromOneRun ==
    BundleLoaded => \A f, g \in ArtifactFiles : loaded[f].run = loaded[g].run

\* C3: when load_model_files fails because files are absent, its message names
\* every file that is absent at that moment.
C3_NamesEveryAbsentFile ==
    [][("missing_error" \notin rendered /\ "missing_error" \in rendered')
          => missing_named' = {f \in ArtifactFiles : ~files[f].present}]_vars

\* C4: load_model_files returns all four objects or four None values, all four
\* only when all four files exist; and a script run whose load returned None
\* ends at main.py:145: no input form, no pipeline call, no result, no footer.
C4_LoadAllOrNothing ==
    /\ BundleLoaded \/ BundleNone
    /\ BundleLoaded => \A f \in ArtifactFiles : files[f].present
    /\ "missing_error" \in rendered =>
          /\ BundleNone
          /\ apc \in {"check_model", "returned", "idle"}
          /\ rendered = {"header", "missing_error", "run_train_info"}
          /\ calls = <<>>
          /\ ~prediction.made
          /\ perr = NoError

\* a load that failed after it had already read the classifier: main has
\* returned and nothing of what was read is in the result
C4_Witness ==
    /\ apc = "returned"
    /\ "missing_error" \in rendered
    /\ loading[model_pkl].present
    /\ BundleNone

\* C8: a training run on a dataset that lacks one of the 13 feature columns or
\* the label column never completes and writes none of the four artifacts.
SchemaComplete(ds) == Range(SchemaCols) \subseteq Range(ds.cols)

C8_SchemaMismatchHalts ==
    (trun > 0 /\ csv.exists /\ ~SchemaComplete(csv))
        => (tpc # "done" /\ WrittenBy(trun) = {})

\* C9: no step of display_prediction_results changes the artifact files, the
\* loaded classifier, scaler, registry or encoders, or the stored user inputs.
C9_InferenceReadsOnly ==
    [][(apc \in PredictionPcs /\ apc' # apc)
          => (files' = files /\ loaded' = loaded /\ user_inputs' = user_inputs)]_vars

\* a prediction request that went through the scaler and the classifier with
\* the scaler still as training fitted it
C9_Witness ==
    /\ apc = "returned"
    /\ prediction.has_proba
    /\ "scaler.transform" \in Range(calls)
    /\ loaded[scaler_pkl].fitted_on = "X_train"

-----------------------------------------------------------------------------
(* Properties of display_prediction_results, under PipeSpec *)

registry == loaded[columns_pkl].cols

\* the registry columns the raw record omits
Omitted == Range(registry) \ Range(user_inputs.cols)

\* the categorical fields of the raw record whose value the fitted encoder has not seen
Unseen ==
    {c \in CatSet \cap Range(user_inputs.cols) :
        user_inputs.val[c] \notin Range(loaded[encoders_pkl].classes[c])}

\* display_prediction_results is running or has returned, and main has not
InRequest == apc \in PredictionPcs \cup {"footer", "returned"}

Finished == apc \in {"footer", "returned"}

NoResult ==
    /\ ~prediction.made
    /\ ~prediction.has_proba
    /\ rendered \cap ResultOutputs = {}

\* C5: a raw record with a categorical value outside the fitted categories
\* ends in the encoder's error, raised for such a field, with no label, no
\* probabilities and no result output; no later step runs.
C5_UnknownCategoryIsAnError ==
    (InRequest /\ Unseen # {}) =>
        /\ NoResult
        /\ calls \in {<<>>, <<"encode">>}
        /\ apc \in {"results", "encode"} \/ Finished
        /\ Finished =>
              /\ perr.step = "encode"
              /\ perr.type = "ValueError"
              /\ perr.names # {}
              /\ perr.names \subseteq Unseen
              /\ "prediction_error" \in rendered

\* the scenario record with Sex "X", after the pipeline
C5_Witness ==
    /\ apc = "returned"
    /\ "Sex" \in Range(user_inputs.cols)
    /\ user_inputs.val["Sex"] = "X"
    /\ perr.step = "encode"
    /\ perr.names = {"Sex"}

\* C6, as stated: every raw record that omits a registry column ends in the
\* missing-feature error naming the omitted column, and the scaler and the
\* classifier are not invoked on it.
C6_OmittedColumnIsMissingFeature ==
    (Omitted # {} /\ Finished) =>
        /\ perr.step = "select"
        /\ perr.type = "KeyError"
        /\ Omitted \subseteq perr.names
        /\ calls = <<"encode", "select">>

\* C6, amended: on a raw record that omits a registry column the scaler and
\* the classifier are never invoked and no result is produced; the encoding
\* step passes over an omitted categorical column, and when every categorical
\* value present is a fitted one the column selection raises KeyError naming
\* exactly the omitted registry columns; when one is not, the encoder's error
\* comes first.
C6_OmittedColumnFails ==
    (InRequest /\ Omitted # {}) =>
        /\ NoResult
        /\ ~scaled_input.present
        /\ IsPrefix(calls, <<"encode", "select">>)
        /\ apc \in {"results", "encode", "select"} \/ Finished
        /\ (Finished /\ Unseen = {}) =>
              /\ perr.step = "select"
              /\ perr.type = "KeyError"
              /\ perr.names = Omitted
              /\ calls = <<"encode", "select">>
        /\ (Finished /\ Unseen # {}) => perr.step = "encode"

\* a record without Sex: the encoding step passed over it and the selection named it
C6_Witness ==
    /\ apc = "returned"
    /\ "Sex" \notin Range(user_inputs.cols)
    /\ calls = <<"encode", "select">>
    /\ perr.step = "select"
    /\ "Sex" \in perr.names

\* C7: the pipeline steps run in the order encode, select, scaler.transform,
\* predict, predict_proba, each at most once; after a failure of one of them
\* no later step runs and no result output is rendered, only the error; a
\* result output is rendered only after all five.
C7_FixedOrderNoRetry ==
    /\ IsPrefix(calls, PipelineSteps)
    /\ perr.step \in Range(PipelineSteps) =>
          /\ apc \in {"footer", "returned", "idle"}
          /\ calls # <<>>
          /\ calls[Len(calls)] = perr.step
          /\ rendered \cap ResultOutputs = {}
          /\ "prediction_error" \in rendered
    /\ rendered \cap ResultOutputs # {} =>
          /\ calls = PipelineSteps
          /\ prediction.made
          /\ prediction.has_proba

\* the classifier rejected what the scaler had accepted: four steps ran, the
\* fifth did not, and only the error is on the page
C7_Witness ==
    /\ apc = "returned"
    /\ perr.step = "predict"
    /\ calls = <<"encode", "select", "scaler.transform", "predict">>

\* s is t with its one occurrence of e taken out
IsWithoutOne(s, t, e) ==
    /\ e \in Range(t)
    /\ Len(s) = Len(t) - 1
    /\ LET k == IndexOf(t, e)
       IN  \A i \in 1..Len(s) : s[i] = t[IF i < k THEN i ELSE i + 1]

\* C10: for a raw record with all registry columns, whatever its key order and
\* extra keys, the frame passed to the scaler and the array passed to the
\* classifier have exactly the registry's columns in the registry's order,
\* and the registry is the training dataset's columns without HeartDisease,
\* in the dataset's order.
C10_RegistryOrder ==
    InRequest =>
        /\ IsWithoutOne(registry, csv.cols, Label)
        /\ Omitted = {} =>
              /\ apc = "scale" => input_df.cols = registry
              /\ scaled_input.present => scaled_input.cols = registry

\* a record in reverse key order with an extra key, a registry in another
\* order than the form's, and the classifier has been called
C10_Witness ==
    /\ prediction.made
    /\ user_inputs.cols = <<ExtraKey>> \o Reverse(InputKeys)
    /\ registry = Swap(InputKeys, 1, 2)
    /\ scaled_input.cols = registry

-----------------------------------------------------------------------------
(* One application session over a working directory that no training run touches *)

\* main.py:137-139, as ScriptRun, for the longer session
SessionRun ==
    /\ apc = "idle"
    /\ nruns < MaxSessionRuns
    /\ \E byClick \in BOOLEAN :
          /\ byClick => "button" \in rendered
          /\ NewRun(byClick)
    /\ UNCHANGED <<files, trainVars, user_inputs, prediction_made>>

SessionNext ==
    \/ SessionRun
    \/ LoadModel
    \/ LoadScaler
    \/ LoadColumns
    \/ LoadEncoders
    \/ MainCheck
    \/ InputSection
    \/ CheckPrediction
    \/ ResultsBegin
    \/ PredEncode
    \/ PredSelect
    \/ PredScale
    \/ PredPredict
    \/ PredProba
    \/ DisplayMain
    \/ DisplayRiskFactors
    \/ DisplayRecommendations
    \/ Footer
    \/ ScriptEnd

SessionSpec == Init /\ [][SessionNext]_vars

\* the flag changes only from false to true, only in the input section of a
\* script run the button started, and that step restarts the script run
FlagStep ==
    prediction_made' # prediction_made =>
        /\ ~prediction_made
        /\ prediction_made'
        /\ clicked
        /\ apc = "input_section"
        /\ apc' = "load_model"
        /\ nruns' = nruns + 1
        /\ ~clicked'
        /\ rendered' = {"header"}

\* the input section of a script run the button started sets the flag
ClickStep ==
    (apc = "input_section" /\ apc' # apc /\ clicked) => prediction_made'

\* main's check goes to display_prediction_results exactly when the flag is set
CheckStep ==
    (apc = "check_prediction" /\ apc' # apc) =>
        /\ apc' = (IF prediction_made THEN "results" ELSE "footer")
        /\ prediction_made' = prediction_made

\* what a script run shows
RunShows ==
    /\ nruns = 0 => ~prediction_made
    /\ "results_header" \in rendered =>
          /\ prediction_made
          /\ "inputs" \in rendered
    /\ (apc \in {"footer", "returned"} /\ BundleLoaded) =>
          ("results_header" \in rendered <=> prediction_made)
    /\ apc \in PredictionPcs =>
          /\ "inputs" \in rendered
          /\ user_inputs.cols = InputKeys
    /\ apc = "encode" =>
          /\ input_df.cols = user_inputs.cols
          /\ input_df.val = user_inputs.val

\* C11: prediction_made is false until the Analyze button is clicked, the click
\* sets it and restarts the script run, nothing resets it; a script run with a
\* loaded bundle shows the prediction results exactly when the flag is set at
\* main's check, computed from the user_inputs the input section stored in
\* that same run, also in runs that no click started.
C11_FlagMonotonic ==
    /\ []RunShows
    /\ [][FlagStep /\ ClickStep /\ CheckStep]_vars

\* the fourth script run: opened, clicked, restarted, then an input changed
\* without a click, and the prediction is on the page again
C11_Witness ==
    /\ apc = "returned"
    /\ nruns = 4
    /\ ~clicked
    /\ prediction_made
    /\ user_inputs.val["Sex"] = "M"
    /\ {"inputs", "results_header", "main_prediction"} \subseteq rendered

====
